---- MODULE Spec2Model ----
(***************************************************************************)
(* maddi-type: a terminal typing tutor.  The model covers the key locator  *)
(* (Layout::shift, Layout::location over the three static layouts), the    *)
(* keyboard hint state (Keyboard::update, from_layout, next_layout) and    *)
(* the event loop of App (run, draw, handle_events, handle_key_event).     *)
(* Characters are Unicode code points; Rust indices are 0-based and the    *)
(* grids below are 1-based sequences, so a cell (row, col) of the source   *)
(* is grid[row + 1][col + 1].                                              *)
(***************************************************************************)
EXTENDS Integers, Sequences, FiniteSets

\* ---------------------------------------------------------------- bounds
\* longest story text explored
MaxLen == 2
\* how far past the end of the story the progress counter is followed
MaxOverrun == 1
\* longest story text whose display window is computed
MaxWindowStory == 10
\* widest story panel whose display window is computed
MaxWidth == 10
\* tallest keyboard area whose cells are sized
MaxAreaHeight == 12
\* widest keyboard area whose cells are sized
MaxAreaWidth == 40

\* ------------------------------------------------------------- characters
\* '\0', the cell of a grid that holds no key
SENTINEL == 0
\* the glyph that FileData::load puts in place of a line break
RETURN_GLYPH == 8617
\* Option<char>::None
NoChar == -1

\* the characters handed to the locator: all of ASCII, the return glyph and
\* one character outside every table (e-acute)
ProbeChars == (0..127) \cup {233, RETURN_GLYPH}

\* -------------------------------------------------------------- layouts
\* `1234567890[]. / .qwertyuiop[]\ / .asdfghjkl;'.. / .zxcvbnm,./...
KEYS_QWERTY_BASE ==
    << <<96, 49, 50, 51, 52, 53, 54, 55, 56, 57, 48, 91, 93, 0>>,
       <<0, 113, 119, 101, 114, 116, 121, 117, 105, 111, 112, 91, 93, 92>>,
       <<0, 97, 115, 100, 102, 103, 104, 106, 107, 108, 59, 39, 0, 0>>,
       <<0, 122, 120, 99, 118, 98, 110, 109, 44, 46, 47, 0, 0, 0>> >>

\* `1234567890[]. / .',.pyfgcr/=\. / .aoeuidhtns-.. / .;qjkxbmwvz...
KEYS_DVORAK_BASE ==
    << <<96, 49, 50, 51, 52, 53, 54, 55, 56, 57, 48, 91, 93, 0>>,
       <<0, 39, 44, 46, 112, 121, 102, 103, 99, 114, 47, 61, 92, 0>>,
       <<0, 97, 111, 101, 117, 105, 100, 104, 116, 110, 115, 45, 0, 0>>,
       <<0, 59, 113, 106, 107, 120, 98, 109, 119, 118, 122, 0, 0, 0>> >>

\* qfuyzxkcwb / oheaidrtns / ,m.j;glpv.
KEYS_3L_BASE ==
    << <<113, 102, 117, 121, 122, 120, 107, 99, 119, 98>>,
       <<111, 104, 101, 97, 105, 100, 114, 116, 110, 115>>,
       <<44, 109, 46, 106, 59, 103, 108, 112, 118, 0>> >>

\* "_[]^!<>=& / /-{}*?()': / #$|~`+%\@
KEYS_3L_SYM ==
    << <<34, 95, 91, 93, 94, 33, 60, 62, 61, 38>>,
       <<47, 45, 123, 125, 42, 63, 40, 41, 39, 58>>,
       <<35, 36, 124, 126, 96, 43, 37, 92, 64>> >>

\* .123 / .456 / 0789
KEYS_3L_CUR ==
    << <<0, 49, 50, 51>>,
       <<0, 52, 53, 54>>,
       <<48, 55, 56, 57>> >>

LAYOUT_QWERTY ==
    [name |-> "QWERTY", base |-> KEYS_QWERTY_BASE, sym |-> <<>>, cur |-> <<>>]

LAYOUT_DVORAK ==
    [name |-> "Dvorak", base |-> KEYS_DVORAK_BASE, sym |-> <<>>, cur |-> <<>>]

LAYOUT_3L ==
    [name |-> "3l", base |-> KEYS_3L_BASE, sym |-> KEYS_3L_SYM, cur |-> KEYS_3L_CUR]

Layouts == {LAYOUT_QWERTY, LAYOUT_DVORAK, LAYOUT_3L}

\* &'static Layout: a reference to one of the three layouts is held as the
\* name of the layout it points at (each layout taken to have one address)
AddrOf(layout) == layout.name

\* the layout a reference points at
Deref(ptr) == CHOOSE layout \in Layouts : layout.name = ptr

\* ---------------------------------------------------------- key locator
\* `as u8`
U8(n) == n % 256

\* char::to_ascii_uppercase: 'a'..'z' lose 32, everything else is kept
to_ascii_uppercase(c) == IF c >= 97 /\ c <= 122 THEN c - 32 ELSE c

\* Layout::shift: the punctuation substitution table, uppercasing otherwise
shift(c) ==
    CASE c = 96 -> 126      \* ` ~
      [] c = 49 -> 33       \* 1 !
      [] c = 50 -> 64       \* 2 @
      [] c = 51 -> 35       \* 3 #
      [] c = 52 -> 36       \* 4 $
      [] c = 53 -> 37       \* 5 %
      [] c = 54 -> 94       \* 6 ^
      [] c = 55 -> 38       \* 7 &
      [] c = 56 -> 42       \* 8 *
      [] c = 57 -> 40       \* 9 (
      [] c = 48 -> 41       \* 0 )
      [] c = 91 -> 123      \* [ {
      [] c = 93 -> 125      \* ] }
      [] c = 39 -> 34       \* ' "
      [] c = 44 -> 60       \* , <
      [] c = 46 -> 62       \* . >
      [] c = 47 -> 63       \* / ?
      [] c = 61 -> 43       \* = +
      [] c = 92 -> 124      \* \ |
      [] c = 45 -> 95       \* - _
      [] c = 59 -> 58       \* ; :
      [] OTHER -> to_ascii_uppercase(c)

\* Option<Location>::None
NoLocation == [some |-> FALSE, row |-> 0, col |-> 0, modifier |-> "None"]

\* Some(Location { row, col, modifier })
SomeLocation(row, col, modifier) ==
    [some |-> TRUE, row |-> row, col |-> col, modifier |-> modifier]

\* One `for row .. for col .. if candidate == c { return }` nest of
\* Layout::location, resumed at the 0-based cell (row_i, col_i): the first
\* cell in row-major order holding c, or <<>> when the loops run out.
RECURSIVE ScanLayer(_, _, _, _)
ScanLayer(layer, c, row_i, col_i) ==
    IF row_i >= Len(layer) THEN <<>>
    ELSE IF col_i >= Len(layer[row_i + 1]) THEN ScanLayer(layer, c, row_i + 1, 0)
    ELSE IF layer[row_i + 1][col_i + 1] = c THEN <<row_i, col_i>>
    ELSE ScanLayer(layer, c, row_i, col_i + 1)

\* ShiftedLayer with the case-only shift of the ephemeral program variant
ShiftedLayer_case_only(layer) ==
    [r \in 1..Len(layer) |-> [k \in 1..Len(layer[r]) |-> to_ascii_uppercase(layer[r][k])]]

\* the base layer as the fourth nest sees it: Layout::shift of every cell
ShiftedLayer(layer) ==
    [r \in 1..Len(layer) |-> [k \in 1..Len(layer[r]) |-> shift(layer[r][k])]]

\* location with the shifted-base scan ahead of the symbol and numeric scans
location_shift_first(layout, c) ==
    LET inBase  == ScanLayer(layout.base, c, 0, 0)
        inSym   == ScanLayer(layout.sym, c, 0, 0)
        inCur   == ScanLayer(layout.cur, c, 0, 0)
        inShift == ScanLayer(ShiftedLayer(layout.base), c, 0, 0)
    IN  IF inBase # <<>> THEN SomeLocation(U8(inBase[1]), U8(inBase[2]), "None")
        ELSE IF inShift # <<>>
             THEN SomeLocation(U8(inShift[1]), U8(inShift[2]), "Shift")
        ELSE IF inSym # <<>> THEN SomeLocation(U8(inSym[1]), U8(inSym[2]), "Sym")
        ELSE IF inCur # <<>> THEN SomeLocation(U8(inCur[1]), U8(inCur[2]) + 6, "Cur")
        ELSE NoLocation

\* location with the numeric column left in the numeric grid's own space
location_no_offset(layout, c) ==
    LET inBase  == ScanLayer(layout.base, c, 0, 0)
        inSym   == ScanLayer(layout.sym, c, 0, 0)
        inCur   == ScanLayer(layout.cur, c, 0, 0)
        inShift == ScanLayer(ShiftedLayer(layout.base), c, 0, 0)
    IN  IF inBase # <<>> THEN SomeLocation(U8(inBase[1]), U8(inBase[2]), "None")
        ELSE IF inSym # <<>> THEN SomeLocation(U8(inSym[1]), U8(inSym[2]), "Sym")
        ELSE IF inCur # <<>> THEN SomeLocation(U8(inCur[1]), U8(inCur[2]), "Cur")
        ELSE IF inShift # <<>>
             THEN SomeLocation(U8(inShift[1]), U8(inShift[2]), "Shift")
        ELSE NoLocation

\* Layout::location
location(layout, c) ==
    LET inBase  == ScanLayer(layout.base, c, 0, 0)
        inSym   == ScanLayer(layout.sym, c, 0, 0)
        inCur   == ScanLayer(layout.cur, c, 0, 0)
        inShift == ScanLayer(ShiftedLayer(layout.base), c, 0, 0)
    IN  IF inBase # <<>> THEN SomeLocation(U8(inBase[1]), U8(inBase[2]), "None")
        ELSE IF inSym # <<>> THEN SomeLocation(U8(inSym[1]), U8(inSym[2]), "Sym")
        ELSE IF inCur # <<>> THEN SomeLocation(U8(inCur[1]), U8(inCur[2]) + 6, "Cur")
        ELSE IF inShift # <<>>
             THEN SomeLocation(U8(inShift[1]), U8(inShift[2]), "Shift")
        ELSE NoLocation

\* ------------------------------------------------------------------ state
VARIABLES
    story,           \* FileData.story: the normalised text, a sequence of chars
    progress_chars,  \* FileData.progress.chars: the progress cursor
    progress_file,   \* the sidecar progress file: whether it exists, its text
    saves,           \* how many times this run wrote the progress file
    last_saved,      \* the count of the last Progress::save, NoCount before any
    keyboard,        \* App.keyboard: layout, key themes, draw flag, modifiers
    exit,            \* App.exit
    key_event,       \* the event event::read() returned in this loop iteration
    pc,              \* position of main: "load", "draw", "handle_events", "save",
                     \* "done", "failed" (run returned Err), "panicked"
    fed,             \* replay only: how many of the story's own keys were fed
    win,             \* the display window of the story panel, and its width
    cell,            \* the keyboard area and the cell size computed for it
    q_layout,        \* locator probe: the layout asked (a reference)
    q_c,             \* locator probe: the target character
    q_loc,           \* locator probe: location(q_c)
    q_shift_loc,     \* locator probe: location(shift(q_c))
    q_pc             \* locator probe: "ask", "located", "shifted"

appVars == <<story, progress_chars, progress_file, saves, last_saved, keyboard, exit,
            key_event, pc, fed, win, cell>>
probeVars == <<q_layout, q_c, q_loc, q_shift_loc, q_pc>>
vars == <<story, progress_chars, progress_file, saves, last_saved, keyboard, exit,
          key_event, pc, fed, win, cell, q_layout, q_c, q_loc, q_shift_loc, q_pc>>

\* --------------------------------------------------------------- keyboard
THEME_KEY_BASE == "base"
THEME_KEY_HINT == "hint"

\* Keyboard::from_layout: one key per base cell, every theme normal, the
\* panel shown
from_layout(layout) ==
    [layout |-> AddrOf(layout),
     keys   |-> [r \in 1..Len(layout.base) |->
                   [k \in 1..Len(layout.base[r]) |-> THEME_KEY_BASE]],
     draw   |-> TRUE,
     sym    |-> THEME_KEY_BASE,
     cur    |-> THEME_KEY_BASE,
     shift  |-> THEME_KEY_BASE]

\* Keyboard::toggle_draw
toggle_draw(kb) == [kb EXCEPT !.draw = ~kb.draw]

\* next_layout with the last branch going back to Dvorak instead of QWERTY
next_layout_skips_qwerty(kb) ==
    IF kb.layout = AddrOf(LAYOUT_QWERTY) THEN from_layout(LAYOUT_DVORAK)
    ELSE IF kb.layout = AddrOf(LAYOUT_DVORAK) THEN from_layout(LAYOUT_3L)
    ELSE IF kb.layout = AddrOf(LAYOUT_3L) THEN from_layout(LAYOUT_DVORAK)
    ELSE kb

\* Keyboard::next_layout (with set_dvorak, set_3l, set_qwerty)
next_layout(kb) ==
    IF kb.layout = AddrOf(LAYOUT_QWERTY) THEN from_layout(LAYOUT_DVORAK)
    ELSE IF kb.layout = AddrOf(LAYOUT_DVORAK) THEN from_layout(LAYOUT_3L)
    ELSE IF kb.layout = AddrOf(LAYOUT_3L) THEN from_layout(LAYOUT_QWERTY)
    ELSE kb

\* update without the two loops that put every theme back to normal
update_keeps_hints(kb, c) ==
    LET loc == location(Deref(kb.layout), c)
        keyed == IF loc.row + 1 <= Len(kb.keys)
                    /\ loc.col + 1 <= Len(kb.keys[loc.row + 1])
                 THEN [kb EXCEPT !.keys[loc.row + 1][loc.col + 1] = THEME_KEY_HINT]
                 ELSE kb
    IN  IF ~loc.some THEN kb
        ELSE IF loc.modifier = "Sym" THEN [keyed EXCEPT !.sym = THEME_KEY_HINT]
        ELSE IF loc.modifier = "Cur" THEN [keyed EXCEPT !.cur = THEME_KEY_HINT]
        ELSE IF loc.modifier = "Shift" THEN [keyed EXCEPT !.shift = THEME_KEY_HINT]
        ELSE keyed

\* Keyboard::update: every theme back to normal, then the located key (when
\* the grid has that cell) and the located modifier are hinted
update(kb, c) ==
    LET reset == [kb EXCEPT
                    !.keys = [r \in 1..Len(kb.keys) |->
                                [k \in 1..Len(kb.keys[r]) |-> THEME_KEY_BASE]],
                    !.sym = THEME_KEY_BASE,
                    !.cur = THEME_KEY_BASE,
                    !.shift = THEME_KEY_BASE]
        loc == location(Deref(kb.layout), c)
        keyed == IF loc.row + 1 <= Len(reset.keys)
                    /\ loc.col + 1 <= Len(reset.keys[loc.row + 1])
                 THEN [reset EXCEPT !.keys[loc.row + 1][loc.col + 1] = THEME_KEY_HINT]
                 ELSE reset
    IN  IF ~loc.some THEN reset
        ELSE IF loc.modifier = "Sym" THEN [keyed EXCEPT !.sym = THEME_KEY_HINT]
        ELSE IF loc.modifier = "Cur" THEN [keyed EXCEPT !.cur = THEME_KEY_HINT]
        ELSE IF loc.modifier = "Shift" THEN [keyed EXCEPT !.shift = THEME_KEY_HINT]
        ELSE keyed

\* ------------------------------------------------------------------ usize
\* a usize is held as the integer its 64 bits spell in two's complement:
\* 0 .. 2^63 - 1 as themselves, 2^63 .. 2^64 - 1 as the value less 2^64;
\* usize::MAX is then -1
USIZE_MAX == -1

\* the decimal digits of usize::MAX, 18446744073709551615
USIZE_MAX_DIGITS ==
    <<49, 56, 52, 52, 54, 55, 52, 52, 48, 55, 51, 55, 48, 57, 53, 53, 49, 54, 49, 53>>

\* the decimal digits of 2^63, 9223372036854775808, the least usize held as
\* a negative integer
USIZE_HALF_DIGITS ==
    <<57, 50, 50, 51, 51, 55, 50, 48, 51, 54, 56, 53, 52, 55, 55, 53, 56, 48, 56>>

\* a < b on usize
lt_usize(a, b) == IF (a >= 0) = (b >= 0) THEN a < b ELSE a >= 0

\* a += 1 on usize: the sum, or at usize::MAX a panic (overflow checks on) or
\* the wrapped sum 0 (overflow checks off)
add_one_usize(a) ==
    IF a = USIZE_MAX
    THEN {[panic |-> TRUE, value |-> a], [panic |-> FALSE, value |-> 0]}
    ELSE {[panic |-> FALSE, value |-> a + 1]}

\* --------------------------------------------------------- display window
\* usize::saturating_sub
saturating_sub(a, b) == IF lt_usize(a, b) THEN 0 ELSE a - b

\* Iterator::skip(n) on the characters of a text, n a usize
Skip(text, n) == IF lt_usize(n, Len(text)) THEN SubSeq(text, n + 1, Len(text)) ELSE <<>>

\* Iterator::take(n) on the characters of a text, n a usize
Take(text, n) == IF lt_usize(n, Len(text)) THEN SubSeq(text, 1, n) ELSE text

\* the postfix budget without the share lent by the prefix
postfix_budget_whole(buff_width, prefix_len) == 2 * buff_width

\* postfix_len: twice the buffer width less what the prefix took
postfix_budget(buff_width, prefix_len) == saturating_sub(2 * buff_width, prefix_len)

\* the text window of impl Widget for &App::render: prefix, current character
\* and postfix around the cursor for a panel of the given width
render(text, chars, width) ==
    LET buff_width  == width \div 3
        skipped     == saturating_sub(chars, buff_width)
        stream      == Skip(text, skipped)
        prefix_len  == chars - saturating_sub(chars, buff_width)
        prefix      == Take(stream, prefix_len)
        after1      == Skip(stream, prefix_len)
        current     == Take(after1, 1)
        after2      == Skip(after1, 1)
        postfix_len == postfix_budget(buff_width, prefix_len)
        postfix     == Take(after2, postfix_len)
    IN  [pc |-> "rendered", width |-> width, skipped |-> skipped,
         prefix_len |-> prefix_len, postfix_len |-> postfix_len,
         prefix |-> prefix, current |-> current, postfix |-> postfix]

\* the panel before it is rendered
Unrendered(width) ==
    [pc |-> "ask", width |-> width, skipped |-> 0, prefix_len |-> 0, postfix_len |-> 0,
     prefix |-> <<>>, current |-> <<>>, postfix |-> <<>>]

\* no panel
NoWindow == Unrendered(0)

\* ------------------------------------------------------ keyboard cell size
\* the number of values of a u16
U16 == 65536

\* the subtraction panicked
Overflowed == -1

\* a - b on u16: the difference, or on underflow a panic (overflow checks on)
\* or the wrapped difference (overflow checks off)
sub_u16(a, b) == IF a >= b THEN {a - b} ELSE {Overflowed, (a - b + U16) % U16}

\* if size % 2 == 0 { size -= 1; }
make_odd(size) == IF size % 2 = 0 THEN sub_u16(size, 1) ELSE {size}

\* self.layout.base.len()
rows_num(layout) == Len(layout.base)

\* self.layout.base.iter().map(|row| row.len()).max().unwrap()
cols_num(layout) ==
    CHOOSE n \in {Len(layout.base[r]) : r \in 1..Len(layout.base)} :
        \A r \in 1..Len(layout.base) : Len(layout.base[r]) <= n

\* a keyboard area waiting for its cells to be sized
Unsized(layout, height, width) ==
    [pc |-> "ask", layout |-> AddrOf(layout), height |-> height, width |-> width,
     row_height |-> 0, col_width |-> 0]

\* no keyboard area
NoCell == Unsized(LAYOUT_QWERTY, 0, 0)

\* the row height and column width of impl Widget for &Keyboard::render:
\* every outcome the two roundings can have
cell_sizes(ask) ==
    LET layout == Deref(ask.layout)
    IN  { IF row_height = Overflowed
            THEN [ask EXCEPT !.pc = "panicked"]
            ELSE IF col_width = Overflowed
                   THEN [ask EXCEPT !.pc = "panicked", !.row_height = row_height]
                   ELSE [ask EXCEPT !.pc = "sized", !.row_height = row_height,
                                    !.col_width = col_width] :
          row_height \in make_odd(ask.height \div rows_num(layout)),
          col_width \in make_odd(ask.width \div cols_num(layout)) }

\* --------------------------------------------------------- progress store
\* no Progress::save yet
NoCount == <<>>

\* the count of the last Progress::save
SomeCount(chars) == <<chars>>

\* serde_json found the text not to be a Progress
ParseError == [ok |-> FALSE, chars |-> 0]

\* serde_json read the Progress { chars }
Parsed(chars) == [ok |-> TRUE, chars |-> chars]

\* the digits ds less the number k, digit by digit with borrow
RECURSIVE SubDigits(_, _)
SubDigits(ds, k) ==
    IF k = 0 \/ ds = <<>> THEN ds
    ELSE LET n      == Len(ds)
             d      == (ds[n] - 48) - (k % 10)
             borrow == IF d < 0 THEN 1 ELSE 0
         IN  Append(SubDigits(SubSeq(ds, 1, n - 1), (k \div 10) + borrow),
                    48 + d + 10 * borrow)

\* digits without their leading zeros
RECURSIVE StripZeros(_)
StripZeros(ds) == IF Len(ds) > 1 /\ ds[1] = 48 THEN StripZeros(Tail(ds)) ELSE ds

\* the decimal digits of a usize, as serde_json writes it
RECURSIVE ToDecimal(_)
ToDecimal(n) ==
    IF n < 0 THEN StripZeros(SubDigits(USIZE_MAX_DIGITS, (-n) - 1))
    ELSE IF n < 10 THEN <<48 + n>>
    ELSE Append(ToDecimal(n \div 10), 48 + (n % 10))

\* serde_json::to_string_pretty(&Progress { chars }): {"chars": n} on three
\* lines, the member indented by two spaces
to_string_pretty(chars) ==
    <<123, 10, 32, 32, 34, 99, 104, 97, 114, 115, 34, 58, 32>>
        \o ToDecimal(chars) \o <<10, 125>>

\* the parser gave up
Fail == 0

\* JSON whitespace: space, line feed, carriage return, tab
IsWhitespace(b) == b \in {32, 10, 13, 9}

\* the first index at or after i that holds no whitespace (Len + 1 at the end)
RECURSIVE SkipWhitespace(_, _)
SkipWhitespace(text, i) ==
    IF i <= Len(text) /\ IsWhitespace(text[i]) THEN SkipWhitespace(text, i + 1) ELSE i

\* text[i] is a decimal digit
IsDigitAt(text, i) == i <= Len(text) /\ text[i] >= 48 /\ text[i] <= 57

\* the first index at or after i that holds no digit
RECURSIVE SkipDigits(_, _)
SkipDigits(text, i) == IF IsDigitAt(text, i) THEN SkipDigits(text, i + 1) ELSE i

\* text[i] is the byte b
ByteIs(text, i, b) == i <= Len(text) /\ text[i] = b

\* text[i] is one of the bytes
ByteIn(text, i, bytes) == i <= Len(text) /\ text[i] \in bytes

\* the bytes of word stand at text[i..]
WordAt(text, i, word) ==
    i + Len(word) - 1 <= Len(text) /\ SubSeq(text, i, i + Len(word) - 1) = word

\* text[i] is a hexadecimal digit
IsHexAt(text, i) ==
    ByteIn(text, i, (48..57) \cup (65..70) \cup (97..102))

\* the value of a hexadecimal digit
HexValue(b) == IF b <= 57 THEN b - 48 ELSE IF b <= 70 THEN b - 55 ELSE b - 87

\* the four hexadecimal digits text[i..i+3] as a number
Hex4(text, i) ==
    4096 * HexValue(text[i]) + 256 * HexValue(text[i + 1])
        + 16 * HexValue(text[i + 2]) + HexValue(text[i + 3])

\* four hexadecimal digits stand at text[i..i+3]
IsHex4At(text, i) ==
    IsHexAt(text, i) /\ IsHexAt(text, i + 1) /\ IsHexAt(text, i + 2) /\ IsHexAt(text, i + 3)

\* the characters a one-letter escape stands for: \" \\ \/ \b \f \n \r \t
EscapeOf(b) ==
    IF b = 98 THEN 8 ELSE IF b = 102 THEN 12 ELSE IF b = 110 THEN 10
    ELSE IF b = 114 THEN 13 ELSE IF b = 116 THEN 9 ELSE b

\* the letters of the one-letter escapes
EscapeLetters == {34, 92, 47, 98, 102, 110, 114, 116}

\* a string that is skipped, from after its opening quote: the index after
\* the closing quote; escapes are looked at, surrogates are not paired
RECURSIVE ignore_str(_, _)
ignore_str(text, j) ==
    IF j > Len(text) THEN Fail
    ELSE IF text[j] = 34 THEN j + 1
    ELSE IF text[j] = 92
      THEN IF ByteIn(text, j + 1, EscapeLetters) THEN ignore_str(text, j + 2)
           ELSE IF ByteIs(text, j + 1, 117) /\ IsHex4At(text, j + 2)
             THEN ignore_str(text, j + 6)
           ELSE Fail
    ELSE IF text[j] < 32 THEN Fail
    ELSE ignore_str(text, j + 1)

\* text[i] is a UTF-8 continuation byte
IsContinuationAt(text, i) == ByteIn(text, i, 128..191)

\* the length of the well-formed UTF-8 sequence that starts at text[j]: 1 to
\* 4 bytes, no overlong form, no surrogate, nothing above U+10FFFF; 0 when
\* the bytes are not UTF-8
utf8_len(text, j) ==
    LET b == text[j]
        c2 == IsContinuationAt(text, j + 2)
        c3 == IsContinuationAt(text, j + 3)
    IN  IF b < 128 THEN 1
        ELSE IF b \in 194..223 /\ IsContinuationAt(text, j + 1) THEN 2
        ELSE IF b = 224 /\ ByteIn(text, j + 1, 160..191) /\ c2 THEN 3
        ELSE IF b \in (225..236) \cup (238..239) /\ IsContinuationAt(text, j + 1) /\ c2 THEN 3
        ELSE IF b = 237 /\ ByteIn(text, j + 1, 128..159) /\ c2 THEN 3
        ELSE IF b = 240 /\ ByteIn(text, j + 1, 144..191) /\ c2 /\ c3 THEN 4
        ELSE IF b \in 241..243 /\ IsContinuationAt(text, j + 1) /\ c2 /\ c3 THEN 4
        ELSE IF b = 244 /\ ByteIn(text, j + 1, 128..143) /\ c2 /\ c3 THEN 4
        ELSE 0

\* the character the well-formed UTF-8 sequence of n bytes at text[j] encodes
utf8_char(text, j, n) ==
    IF n = 1 THEN text[j]
    ELSE IF n = 2 THEN 64 * (text[j] - 192) + (text[j + 1] - 128)
    ELSE IF n = 3 THEN 4096 * (text[j] - 224) + 64 * (text[j + 1] - 128) + (text[j + 2] - 128)
    ELSE 262144 * (text[j] - 240) + 4096 * (text[j + 1] - 128)
           + 64 * (text[j + 2] - 128) + (text[j + 3] - 128)

\* a string that is read, from after its opening quote: its characters and
\* the index after the closing quote; a \u escape of a leading surrogate
\* needs the \u escape of a trailing one after it, and the bytes that are
\* not escapes have to be UTF-8
RECURSIVE parse_str(_, _)
parse_str(text, j) ==
    LET bad == [ok |-> FALSE, chars |-> <<>>, next |-> Fail]
        then(c, k) ==
            LET rest == parse_str(text, k)
            IN  IF rest.ok THEN [rest EXCEPT !.chars = <<c>> \o rest.chars] ELSE bad
    IN  IF j > Len(text) THEN bad
        ELSE IF text[j] = 34 THEN [ok |-> TRUE, chars |-> <<>>, next |-> j + 1]
        ELSE IF text[j] = 92
          THEN IF ByteIn(text, j + 1, EscapeLetters) THEN then(EscapeOf(text[j + 1]), j + 2)
               ELSE IF ByteIs(text, j + 1, 117) /\ IsHex4At(text, j + 2)
                 THEN LET lead == Hex4(text, j + 2)
                      IN  IF lead >= 56320 /\ lead <= 57343 THEN bad
                          ELSE IF lead >= 55296 /\ lead <= 56319
                            THEN IF /\ ByteIs(text, j + 6, 92) /\ ByteIs(text, j + 7, 117)
                                    /\ IsHex4At(text, j + 8)
                                    /\ Hex4(text, j + 8) >= 56320
                                    /\ Hex4(text, j + 8) <= 57343
                                 THEN then(65536 + 1024 * (lead - 55296)
                                             + (Hex4(text, j + 8) - 56320), j + 12)
                                 ELSE bad
                          ELSE then(lead, j + 6)
               ELSE bad
        ELSE IF text[j] < 32 THEN bad
        ELSE IF utf8_len(text, j) = 0 THEN bad
        ELSE then(utf8_char(text, j, utf8_len(text, j)), j + utf8_len(text, j))

\* a JSON number from text[i]: the index after it
parse_number_end(text, i) ==
    LET int   == IF ByteIs(text, i, 45) THEN i + 1 ELSE i
        frac  == IF ByteIs(text, int, 48) THEN int + 1 ELSE SkipDigits(text, int)
        exp   == IF ByteIs(text, frac, 46) THEN SkipDigits(text, frac + 1) ELSE frac
        sign  == IF ByteIn(text, exp + 1, {43, 45}) THEN exp + 2 ELSE exp + 1
        after == IF ByteIn(text, exp, {69, 101}) THEN SkipDigits(text, sign) ELSE exp
    IN  IF frac = int THEN Fail
        ELSE IF ByteIs(text, int, 48) /\ IsDigitAt(text, frac) THEN Fail
        ELSE IF ByteIs(text, frac, 46) /\ exp = frac + 1 THEN Fail
        ELSE IF ByteIn(text, exp, {69, 101}) /\ after = sign THEN Fail
        ELSE after

\* any JSON value from text[i], skipped: the index after it
RECURSIVE ignore_value(_, _)
RECURSIVE ignore_elements(_, _, _)
RECURSIVE ignore_members(_, _, _)
ignore_value(text, i) ==
    IF ByteIs(text, i, 34) THEN ignore_str(text, i + 1)
    ELSE IF ByteIs(text, i, 45) \/ IsDigitAt(text, i) THEN parse_number_end(text, i)
    ELSE IF WordAt(text, i, <<116, 114, 117, 101>>) THEN i + 4
    ELSE IF WordAt(text, i, <<102, 97, 108, 115, 101>>) THEN i + 5
    ELSE IF WordAt(text, i, <<110, 117, 108, 108>>) THEN i + 4
    ELSE IF ByteIs(text, i, 91) THEN ignore_elements(text, i + 1, TRUE)
    ELSE IF ByteIs(text, i, 123) THEN ignore_members(text, i + 1, TRUE)
    ELSE Fail

\* the elements of an array that is skipped, from after [ or a comma
ignore_elements(text, i, first) ==
    LET j == SkipWhitespace(text, i)
    IN  IF first /\ ByteIs(text, j, 93) THEN j + 1
        ELSE LET v == ignore_value(text, j)
                 k == SkipWhitespace(text, v)
             IN  IF v = Fail THEN Fail
                 ELSE IF ByteIs(text, k, 44) THEN ignore_elements(text, k + 1, FALSE)
                 ELSE IF ByteIs(text, k, 93) THEN k + 1
                 ELSE Fail

\* the members of an object that is skipped, from after { or a comma
ignore_members(text, i, first) ==
    LET j == SkipWhitespace(text, i)
    IN  IF first /\ ByteIs(text, j, 125) THEN j + 1
        ELSE IF ~ByteIs(text, j, 34) THEN Fail
        ELSE LET key   == ignore_str(text, j + 1)
                 colon == SkipWhitespace(text, key)
                 v     == ignore_value(text, SkipWhitespace(text, colon + 1))
                 k     == SkipWhitespace(text, v)
             IN  IF key = Fail \/ ~ByteIs(text, colon, 58) \/ v = Fail THEN Fail
                 ELSE IF ByteIs(text, k, 44) THEN ignore_members(text, k + 1, FALSE)
                 ELSE IF ByteIs(text, k, 125) THEN k + 1
                 ELSE Fail

\* digit sequences of one length: a is the smaller number
RECURSIVE DigitsLess(_, _)
DigitsLess(a, b) ==
    IF a = <<>> THEN FALSE
    ELSE IF a[1] # b[1] THEN a[1] < b[1]
    ELSE DigitsLess(Tail(a), Tail(b))

\* the number written by the digits
RECURSIVE DecimalValue(_)
DecimalValue(ds) ==
    IF ds = <<>> THEN 0
    ELSE 10 * DecimalValue(SubSeq(ds, 1, Len(ds) - 1)) + (ds[Len(ds)] - 48)

\* the number a is written by less the number b is written by, a and b of
\* one length
RECURSIVE DigitsMinus(_, _)
DigitsMinus(a, b) ==
    IF a = <<>> THEN 0
    ELSE 10 * DigitsMinus(SubSeq(a, 1, Len(a) - 1), SubSeq(b, 1, Len(b) - 1))
           + (a[Len(a)] - b[Len(b)])

\* the digits are a number a u64 holds
FitsU64(ds) ==
    Len(ds) < 20 \/ (Len(ds) = 20 /\ ~DigitsLess(USIZE_MAX_DIGITS, ds))

\* the usize the digits write
UsizeOfDigits(ds) ==
    IF Len(ds) < 19 \/ (Len(ds) = 19 /\ DigitsLess(ds, USIZE_HALF_DIGITS))
    THEN DecimalValue(ds)
    ELSE -(DigitsMinus(USIZE_MAX_DIGITS, IF Len(ds) = 19 THEN <<48>> \o ds ELSE ds)) - 1

\* a usize from text[i]: a JSON number with no sign, fraction or exponent
\* that a u64 holds (any other number is of another type to serde)
deserialize_usize(text, i) ==
    LET after == parse_number_end(text, i)
    IN  IF /\ IsDigitAt(text, i)
           /\ after # Fail
           /\ after = SkipDigits(text, i)
           /\ FitsU64(SubSeq(text, i, after - 1))
        THEN [ok |-> TRUE, chars |-> UsizeOfDigits(SubSeq(text, i, after - 1)), next |-> after]
        ELSE [ok |-> FALSE, chars |-> 0, next |-> Fail]

\* the name of the one field of Progress
FIELD_CHARS == <<99, 104, 97, 114, 115>>

\* Deserializer::end: nothing but whitespace from text[i] on
end(text, i) == SkipWhitespace(text, i) = Len(text) + 1

\* the derived visit_map of Progress from after { or a comma: members in any
\* order, chars once and only once, every other member skipped
RECURSIVE visit_map(_, _, _, _, _)
visit_map(text, i, first, seen, chars) ==
    LET j      == SkipWhitespace(text, i)
        finish(k) == IF seen /\ end(text, k) THEN Parsed(chars) ELSE ParseError
    IN  IF first /\ ByteIs(text, j, 125) THEN finish(j + 1)
        ELSE IF ~ByteIs(text, j, 34) THEN ParseError
        ELSE LET key   == parse_str(text, j + 1)
                 colon == SkipWhitespace(text, key.next)
                 v     == SkipWhitespace(text, colon + 1)
                 field == key.ok /\ key.chars = FIELD_CHARS
                 count == deserialize_usize(text, v)
                 after == IF field THEN count.next ELSE ignore_value(text, v)
                 k     == SkipWhitespace(text, after)
             IN  IF ~key.ok \/ ~ByteIs(text, colon, 58) THEN ParseError
                 ELSE IF field /\ seen THEN ParseError
                 ELSE IF after = Fail THEN ParseError
                 ELSE IF ByteIs(text, k, 44)
                   THEN visit_map(text, k + 1, FALSE, seen \/ field,
                                  IF field THEN count.chars ELSE chars)
                 ELSE IF ByteIs(text, k, 125)
                   THEN IF (seen \/ field) /\ end(text, k + 1)
                        THEN Parsed(IF field THEN count.chars ELSE chars)
                        ELSE ParseError
                 ELSE ParseError

\* the derived visit_seq of Progress from after [: the one field, then ]
visit_seq(text, i) ==
    LET count == deserialize_usize(text, SkipWhitespace(text, i))
        close == SkipWhitespace(text, count.next)
    IN  IF count.ok /\ ByteIs(text, close, 93) /\ end(text, close + 1)
        THEN Parsed(count.chars)
        ELSE ParseError

\* serde_json::from_reader::<Progress>: the struct from a JSON object or a
\* JSON array, whitespace between the tokens and nothing but whitespace after
from_reader(text) ==
    LET open == SkipWhitespace(text, 1)
    IN  IF ByteIs(text, open, 123) THEN visit_map(text, open + 1, TRUE, FALSE, 0)
        ELSE IF ByteIs(text, open, 91) THEN visit_seq(text, open + 1)
        ELSE ParseError

\* no progress file
NoFile == [exists |-> FALSE, text |-> <<>>]

\* a progress file holding the text
FileWith(text) == [exists |-> TRUE, text |-> text]

\* truncate that leaves the old text in place
truncate_keeps(text) == text

\* OpenOptions::truncate(true): the file is emptied when it is opened
truncate(text) == <<>>

\* write_all at the start of an open file: the data, then what the file held
\* beyond it
write_all(text, data) == data \o SubSeq(text, Len(data) + 1, Len(text))

\* Progress::save on an existing file: opened for writing and truncated, the
\* pretty JSON of the count written
save(file, chars) == FileWith(write_all(truncate(file.text), to_string_pretty(chars)))

\* Progress::load with the unwrap replaced by a fall-back to the default
load_or_default(file) ==
    LET found == IF file.exists THEN file
                 ELSE FileWith(write_all(<<>>, to_string_pretty(0)))
        parsed == from_reader(found.text)
    IN  [file |-> found, progress |-> IF parsed.ok THEN parsed ELSE Parsed(0)]

\* Progress::load: a missing file is created with the default count 0, then
\* the file is parsed; progress is ParseError where the unwrap panics
load(file) ==
    LET found == IF file.exists THEN file
                 ELSE FileWith(write_all(<<>>, to_string_pretty(0)))
    IN  [file |-> found, progress |-> from_reader(found.text)]

\* -------------------------------------------------------------------- app
\* next reading one character too far: nth(progress.chars + 1)
next_off_by_one(text, chars) ==
    IF lt_usize(chars, Len(text)) /\ chars + 1 < Len(text) THEN text[chars + 2] ELSE NoChar

\* App::next: story.chars().nth(progress.chars)
next(text, chars) == IF lt_usize(chars, Len(text)) THEN text[chars + 1] ELSE NoChar

\* the characters a story is made of here: 9 < H n and the return glyph
StoryChars == {57, 60, 72, 110, RETURN_GLYPH}

\* the story of the end-to-end scenario: "Hi" and a line break
SCENARIO_STORY == <<72, 105, RETURN_GLYPH>>

RECURSIVE SeqsUpTo(_, _)
SeqsUpTo(S, n) ==
    IF n = 0 THEN {<<>>}
    ELSE LET shorter == SeqsUpTo(S, n - 1)
         IN  shorter \cup {Append(s, x) : s \in {t \in shorter : Len(t) = n - 1}, x \in S}

\* stories with the letters of the two hotkeys: "h", "nh" and "hn"
HOTKEY_STORIES == {<<104>>, <<110, 104>>, <<104, 110>>}

Stories == SeqsUpTo(StoryChars, MaxLen) \cup {SCENARIO_STORY} \cup HOTKEY_STORIES

\* crossterm key events: code, the char of KeyCode::Char, CONTROL, the kind
KeyChar(c, ctrl) == [code |-> "Char", ch |-> c, ctrl |-> ctrl, kind |-> "Press"]
KeyCodeOnly(code) == [code |-> code, ch |-> NoChar, ctrl |-> FALSE, kind |-> "Press"]

\* no event read yet in this iteration of the loop
NoEvent == [code |-> "None", ch |-> NoChar, ctrl |-> FALSE, kind |-> "None"]

Events ==
    {KeyChar(c, FALSE) : c \in {72, 104, 105, 110}}
      \cup {KeyChar(c, TRUE) : c \in {104, 105, 110}}
      \cup {KeyCodeOnly(code) : code \in {"Esc", "Enter", "Tab", "F1"}}
      \cup {[code |-> "Char", ch |-> 105, ctrl |-> FALSE, kind |-> "Release"]}

\* the test of the loop of App::run after the event: while !self.exit
loop_test == pc' = IF exit' THEN "save" ELSE "draw"

\* App::exit, the arm of KeyCode::Esc
on_esc ==
    /\ exit' = TRUE
    /\ UNCHANGED <<progress_chars, keyboard>>
    /\ loop_test

\* the arm of Ctrl-n: Keyboard::next_layout
on_ctrl_n ==
    /\ keyboard' = next_layout(keyboard)
    /\ UNCHANGED <<progress_chars, exit>>
    /\ loop_test

\* the arm of Ctrl-h: Keyboard::toggle_draw
on_ctrl_h ==
    /\ keyboard' = toggle_draw(keyboard)
    /\ UNCHANGED <<progress_chars, exit>>
    /\ loop_test

\* on_char comparing without regard to case
on_char_ignore_case(ch) ==
    /\ progress_chars' =
          IF /\ next(story, progress_chars) # NoChar
             /\ to_ascii_uppercase(next(story, progress_chars)) = to_ascii_uppercase(ch)
          THEN progress_chars + 1 ELSE progress_chars
    /\ UNCHANGED <<keyboard, exit>>
    /\ loop_test

\* the arm of KeyCode::Char(char): an advance when next() == Some(char); the
\* cursor is then below the length of the story and the sum cannot overflow
on_char(ch) ==
    /\ progress_chars' = IF next(story, progress_chars) = ch
                         THEN progress_chars + 1 ELSE progress_chars
    /\ UNCHANGED <<keyboard, exit>>
    /\ loop_test

\* the arm of KeyCode::Enter: an advance when next() is the return glyph
on_enter ==
    /\ progress_chars' = IF next(story, progress_chars) = RETURN_GLYPH
                         THEN progress_chars + 1 ELSE progress_chars
    /\ UNCHANGED <<keyboard, exit>>
    /\ loop_test

\* the arm of KeyCode::Tab: an advance, whatever the cursor; at usize::MAX
\* the sum overflows, and the handler panics or the cursor wraps to 0
on_tab ==
    /\ UNCHANGED <<keyboard, exit>>
    /\ \E sum \in add_one_usize(progress_chars) :
          IF sum.panic
          THEN pc' = "panicked" /\ UNCHANGED progress_chars
          ELSE progress_chars' = sum.value /\ loop_test

\* handle_key_event with the Char arm ahead of the two hotkey arms
handle_key_event_char_first(ev) ==
    IF ev.code = "Esc" THEN on_esc
    ELSE IF ev.code = "Char" THEN on_char(ev.ch)
    ELSE IF ev.code = "Char" /\ ev.ch = 110 /\ ev.ctrl THEN on_ctrl_n
    ELSE IF ev.code = "Char" /\ ev.ch = 104 /\ ev.ctrl THEN on_ctrl_h
    ELSE IF ev.code = "Enter" THEN on_enter
    ELSE IF ev.code = "Tab" THEN on_tab
    ELSE UNCHANGED <<progress_chars, keyboard, exit>> /\ loop_test

\* App::handle_key_event: the match arms in source order
handle_key_event(ev) ==
    IF ev.code = "Esc" THEN on_esc
    ELSE IF ev.code = "Char" /\ ev.ch = 110 /\ ev.ctrl THEN on_ctrl_n
    ELSE IF ev.code = "Char" /\ ev.ch = 104 /\ ev.ctrl THEN on_ctrl_h
    ELSE IF ev.code = "Char" THEN on_char(ev.ch)
    ELSE IF ev.code = "Enter" THEN on_enter
    ELSE IF ev.code = "Tab" THEN on_tab
    ELSE UNCHANGED <<progress_chars, keyboard, exit>> /\ loop_test

\* the body of App::handle_events for the event ev, and the loop test of
\* App::run that follows it
HandleEvent(ev) ==
    /\ key_event' = ev
    /\ IF ev.kind = "Press" THEN handle_key_event(ev)
       ELSE UNCHANGED <<progress_chars, keyboard, exit>> /\ loop_test
    /\ UNCHANGED <<story, progress_file, saves, last_saved>>

\* how impl Widget for &Keyboard::render can end on each layout, over the
\* keyboard areas a frame can have: "sized", or "panicked" in the rounding
KeyboardRenderEnds ==
    [name \in {AddrOf(layout) : layout \in Layouts} |->
        {size.pc : size \in UNION {cell_sizes(Unsized(Deref(name), height, width)) :
                                      height \in 0..MaxAreaHeight,
                                      width \in 0..MaxAreaWidth}}]

\* how the two render_widget calls of App::draw can end: the keyboard is
\* rendered only when it is shown; the story window is clamped arithmetic
\* and always ends
frame_ends(kb) == IF kb.draw THEN KeyboardRenderEnds[kb.layout] ELSE {"sized"}

\* App::draw: with the panel shown the hints are recomputed for the expected
\* character, when there is one, and the keyboard is rendered in the area
\* the frame gives it, which panics when the cell rounding underflows with
\* overflow checks on; the sizes and the story window are locals of the
\* render and leave no state behind
Draw ==
    /\ pc = "draw"
    /\ keyboard' = IF keyboard.draw /\ next(story, progress_chars) # NoChar
                   THEN update(keyboard, next(story, progress_chars))
                   ELSE keyboard
    /\ \E ends \in frame_ends(keyboard) :
          pc' = IF ends = "panicked" THEN "panicked" ELSE "handle_events"
    /\ key_event' = NoEvent
    /\ UNCHANGED <<story, progress_chars, progress_file, saves, last_saved, exit, fed, win, cell>>
    /\ UNCHANGED probeVars

\* App::handle_events on any event the terminal can deliver
HandleEvents ==
    /\ pc = "handle_events"
    /\ \E ev \in Events :
          /\ ev.code = "Tab" => progress_chars < Len(story) + MaxOverrun
          /\ HandleEvent(ev)
    /\ UNCHANGED <<fed, win, cell>>
    /\ UNCHANGED probeVars

\* terminal.draw(..)? returning an I/O error: App::run returns it at once,
\* whether the closure had run (hints updated) or not
DrawFails ==
    /\ pc = "draw"
    /\ \E drawn \in BOOLEAN :
          keyboard' = IF drawn /\ keyboard.draw /\ next(story, progress_chars) # NoChar
                      THEN update(keyboard, next(story, progress_chars))
                      ELSE keyboard
    /\ pc' = "failed"
    /\ key_event' = NoEvent
    /\ UNCHANGED <<story, progress_chars, progress_file, saves, last_saved, exit,
                   fed, win, cell>>
    /\ UNCHANGED probeVars

\* ReadFails saving the progress on the way out
ReadFails_saves ==
    /\ pc = "handle_events"
    /\ pc' = "failed"
    /\ progress_file' = save(progress_file, progress_chars)
    /\ saves' = saves + 1
    /\ last_saved' = SomeCount(progress_chars)
    /\ UNCHANGED <<story, progress_chars, keyboard, exit, key_event, fed, win, cell>>
    /\ UNCHANGED probeVars

\* event::read()? returning an I/O error: App::run returns it at once
ReadFails ==
    /\ pc = "handle_events"
    /\ pc' = "failed"
    /\ UNCHANGED <<story, progress_chars, progress_file, saves, last_saved, keyboard,
                   exit, key_event, fed, win, cell>>
    /\ UNCHANGED probeVars

\* the end of App::run: file_data.save().unwrap() once the loop has ended;
\* opening a file that is not there is an error, and the unwrap panics
Save ==
    /\ pc = "save"
    /\ IF progress_file.exists
       THEN /\ progress_file' = save(progress_file, progress_chars)
            /\ saves' = saves + 1
            /\ last_saved' = SomeCount(progress_chars)
            /\ pc' = "done"
       ELSE /\ pc' = "panicked"
            /\ UNCHANGED <<progress_file, saves, last_saved>>
    /\ UNCHANGED <<story, progress_chars, keyboard, exit, key_event, fed, win, cell>>
    /\ UNCHANGED probeVars

\* the probe at rest
ProbeIdle ==
    /\ q_layout = AddrOf(LAYOUT_QWERTY)
    /\ q_c = SENTINEL
    /\ q_loc = NoLocation
    /\ q_shift_loc = NoLocation
    /\ q_pc = "ask"

\* App::load: a fresh QWERTY keyboard, the story and the progress read from
\* the files; the progress file holds a cursor within the story or, written
\* by another hand, usize::MAX
InitApp ==
    /\ story \in Stories
    /\ progress_chars \in (0..Len(story)) \cup {USIZE_MAX}
    /\ progress_file = FileWith(to_string_pretty(progress_chars))
    /\ saves = 0
    /\ last_saved = NoCount
    /\ keyboard = from_layout(LAYOUT_QWERTY)
    /\ exit = FALSE
    /\ key_event = NoEvent
    /\ pc = "draw"
    /\ fed = 0
    /\ win = NoWindow
    /\ cell = NoCell

Init == InitApp /\ ProbeIdle

Next == Draw \/ DrawFails \/ HandleEvents \/ ReadFails \/ Save

Spec == Init /\ [][Next]_vars

\* ----------------------------------------------------------------- replay
\* the key that types the character c: Enter for the return glyph
KeyFor(c) == IF c = RETURN_GLYPH THEN KeyCodeOnly("Enter") ELSE KeyChar(c, FALSE)

\* App::handle_events fed the story's own next key
FeedOwn ==
    /\ pc = "handle_events"
    /\ fed < Len(story)
    /\ HandleEvent(KeyFor(story[fed + 1]))
    /\ fed' = fed + 1
    /\ UNCHANGED <<win, cell>>
    /\ UNCHANGED probeVars

InitReplay == InitApp /\ progress_chars = 0 /\ ProbeIdle

NextReplay == Draw \/ FeedOwn

SpecReplay == InitReplay /\ [][NextReplay]_vars

\* ------------------------------------------------------------ store runs
\* the stories of the runs that load and save the progress
StoreStories == {<<>>, <<105>>, SCENARIO_STORY}

\* {"chars": n} with the given bytes before the member and the given bytes as
\* the number
ProgressText(indent, number) ==
    <<123>> \o indent \o <<34, 99, 104, 97, 114, 115, 34, 58, 32>> \o number \o <<10, 125>>

\* progress files that hold a count: as the program writes them for 0, 2, 12
\* and usize::MAX, on one line for 1, indented by hand with a final line
\* break for 1, {"chars":1,"x":[true]}, {"ch\u0061rs":1}, [1], and
\* {"e-acute":1,"chars":2} with the key in its two UTF-8 bytes
ValidTexts ==
    {to_string_pretty(0), to_string_pretty(2), to_string_pretty(12),
     to_string_pretty(USIZE_MAX),
     <<123, 34, 99, 104, 97, 114, 115, 34, 58, 49, 125>>,
     ProgressText(<<10, 32, 32, 32, 32, 32, 32, 32, 32>>, <<49>>) \o <<10>>,
     <<123, 34, 99, 104, 97, 114, 115, 34, 58, 49, 44, 34, 120, 34, 58, 91, 116, 114, 117, 101, 93, 125>>,
     <<123, 34, 99, 104, 92, 117, 48, 48, 54, 49, 114, 115, 34, 58, 49, 125>>,
     <<91, 49, 93>>,
     <<123, 34, 195, 169, 34, 58, 49, 44, 34, 99, 104, 97, 114, 115, 34, 58, 50, 125>>}

\* progress files that hold no count: empty, a letter, a negative number, a
\* leading zero, a fraction, usize::MAX + 1, {}, {"chars":1,"chars":2},
\* [1,2], {"k":0,"chars":1} with the byte 255 for k (a key that is not
\* UTF-8), cut short, and followed by a stray brace
MalformedTexts ==
    {<<>>,
     ProgressText(<<10, 32, 32>>, <<120>>),
     ProgressText(<<10, 32, 32>>, <<45, 49>>),
     ProgressText(<<10, 32, 32>>, <<48, 49>>),
     ProgressText(<<10, 32, 32>>, <<49, 46, 48>>),
     ProgressText(<<10, 32, 32>>, SubSeq(USIZE_MAX_DIGITS, 1, 19) \o <<54>>),
     <<123, 125>>,
     <<123, 34, 99, 104, 97, 114, 115, 34, 58, 49, 44, 34, 99, 104, 97, 114, 115, 34, 58, 50, 125>>,
     <<91, 49, 44, 50, 93>>,
     <<123, 34, 255, 34, 58, 48, 44, 34, 99, 104, 97, 114, 115, 34, 58, 49, 125>>,
     <<123, 10, 32, 32, 34, 99, 104, 97, 114, 115, 34, 58, 32, 51>>,
     to_string_pretty(3) \o <<125>>}

\* main up to the event loop: App::load builds the keyboard and reads the
\* progress; a progress file that does not parse panics
Load ==
    /\ pc = "load"
    /\ LET loaded == load(progress_file)
       IN  /\ progress_file' = loaded.file
           /\ IF ~loaded.progress.ok
              THEN pc' = "panicked" /\ UNCHANGED progress_chars
              ELSE pc' = "draw" /\ progress_chars' = loaded.progress.chars
    /\ keyboard' = from_layout(LAYOUT_QWERTY)
    /\ exit' = FALSE
    /\ UNCHANGED <<story, saves, last_saved, key_event, fed, win, cell>>
    /\ UNCHANGED probeVars

\* the program started again on the same story after a run that ended
Relaunch ==
    /\ pc = "done"
    /\ pc' = "load"
    /\ progress_chars' = 0
    /\ saves' = 0
    /\ exit' = FALSE
    /\ key_event' = NoEvent
    /\ keyboard' = from_layout(LAYOUT_QWERTY)
    /\ UNCHANGED <<story, progress_file, last_saved, fed, win, cell>>
    /\ UNCHANGED probeVars

InitStore ==
    /\ story \in StoreStories
    /\ progress_chars = 0
    /\ progress_file \in {NoFile} \cup {FileWith(text) : text \in ValidTexts \cup MalformedTexts}
    /\ saves = 0
    /\ last_saved = NoCount
    /\ keyboard = from_layout(LAYOUT_QWERTY)
    /\ exit = FALSE
    /\ key_event = NoEvent
    /\ pc = "load"
    /\ fed = 0
    /\ win = NoWindow
    /\ cell = NoCell
    /\ ProbeIdle

NextStore == Load \/ Draw \/ HandleEvents \/ Save \/ Relaunch

SpecStore == InitStore /\ [][NextStore]_vars

\* ----------------------------------------------------------- window runs
\* the stories whose window is computed: a, ab, abc, ... and the empty story
WindowStories == {[i \in 1..n |-> 96 + i] : n \in 0..MaxWindowStory}

InitWindow ==
    /\ story \in WindowStories
    /\ progress_chars \in (0..(Len(story) + MaxOverrun)) \cup {USIZE_MAX - 1, USIZE_MAX}
    /\ progress_file = NoFile
    /\ saves = 0
    /\ last_saved = NoCount
    /\ keyboard = from_layout(LAYOUT_QWERTY)
    /\ exit = FALSE
    /\ key_event = NoEvent
    /\ pc = "draw"
    /\ fed = 0
    /\ win \in {Unrendered(width) : width \in 0..MaxWidth}
    /\ cell = NoCell
    /\ ProbeIdle

\* impl Widget for &App::render on a panel of the width asked
RenderStory ==
    /\ win.pc = "ask"
    /\ win' = render(story, progress_chars, win.width)
    /\ UNCHANGED <<story, progress_chars, progress_file, saves, last_saved, keyboard,
                   exit, key_event, pc, fed, cell>>
    /\ UNCHANGED probeVars

NextWindow == RenderStory

SpecWindow == InitWindow /\ [][NextWindow]_vars

\* ------------------------------------------------------------- hint runs
\* a keyboard of any layout before a story of any characters: the story and
\* the cursor are left out, the expected character of a frame is any one
InitHint ==
    /\ story = <<>>
    /\ progress_chars = 0
    /\ progress_file = NoFile
    /\ saves = 0
    /\ last_saved = NoCount
    /\ keyboard = from_layout(LAYOUT_QWERTY)
    /\ exit = FALSE
    /\ key_event = NoEvent
    /\ pc = "draw"
    /\ fed = 0
    /\ win = NoWindow
    /\ cell = NoCell
    /\ ProbeIdle

\* App::draw with the panel shown and next() = Some(c): the hints, then the
\* keyboard rendered, which can panic
DrawExpecting ==
    /\ pc = "draw"
    /\ keyboard.draw
    /\ \E c \in ProbeChars : keyboard' = update(keyboard, c)
    /\ \E ends \in frame_ends(keyboard) :
          pc' = IF ends = "panicked" THEN "panicked" ELSE "draw"
    /\ UNCHANGED <<story, progress_chars, progress_file, saves, last_saved, exit,
                   key_event, fed, win, cell>>
    /\ UNCHANGED probeVars

\* handle_key_event on Ctrl-n
PressCtrlN ==
    /\ pc = "draw"
    /\ on_ctrl_n
    /\ UNCHANGED <<story, progress_file, saves, last_saved, key_event, fed, win, cell>>
    /\ UNCHANGED probeVars

\* handle_key_event on Ctrl-h
PressCtrlH ==
    /\ pc = "draw"
    /\ on_ctrl_h
    /\ UNCHANGED <<story, progress_file, saves, last_saved, key_event, fed, win, cell>>
    /\ UNCHANGED probeVars

NextHint == DrawExpecting \/ PressCtrlN \/ PressCtrlH

SpecHint == InitHint /\ [][NextHint]_vars

\* ------------------------------------------------------------- size runs
InitSize ==
    /\ story = <<>>
    /\ progress_chars = 0
    /\ progress_file = NoFile
    /\ saves = 0
    /\ last_saved = NoCount
    /\ keyboard = from_layout(LAYOUT_QWERTY)
    /\ exit = FALSE
    /\ key_event = NoEvent
    /\ pc = "draw"
    /\ fed = 0
    /\ win = NoWindow
    /\ cell \in {Unsized(layout, height, width) :
                    layout \in Layouts, height \in 0..MaxAreaHeight, width \in 0..MaxAreaWidth}
    /\ ProbeIdle

\* impl Widget for &Keyboard::render sizes the cells of the area asked
SizeCells ==
    /\ cell.pc = "ask"
    /\ cell' \in cell_sizes(cell)
    /\ UNCHANGED <<story, progress_chars, progress_file, saves, last_saved, keyboard,
                   exit, key_event, pc, fed, win>>
    /\ UNCHANGED probeVars

NextSize == SizeCells

SpecSize == InitSize /\ [][NextSize]_vars

\* ------------------------------------------------------------------ probe
\* the app at rest
AppIdle ==
    /\ story = <<>>
    /\ progress_chars = 0
    /\ progress_file = NoFile
    /\ saves = 0
    /\ last_saved = NoCount
    /\ keyboard = from_layout(LAYOUT_QWERTY)
    /\ exit = FALSE
    /\ key_event = NoEvent
    /\ pc = "done"
    /\ fed = 0
    /\ win = NoWindow
    /\ cell = NoCell

InitLocate ==
    /\ AppIdle
    /\ q_layout \in {AddrOf(layout) : layout \in Layouts}
    /\ q_c \in ProbeChars
    /\ q_loc = NoLocation
    /\ q_shift_loc = NoLocation
    /\ q_pc = "ask"

\* layout.location(c)
Locate ==
    /\ q_pc = "ask"
    /\ q_loc' = location(Deref(q_layout), q_c)
    /\ q_pc' = "located"
    /\ UNCHANGED <<q_layout, q_c, q_shift_loc>>
    /\ UNCHANGED appVars

\* layout.location(Layout::shift(c))
LocateShifted ==
    /\ q_pc = "located"
    /\ q_shift_loc' = location(Deref(q_layout), shift(q_c))
    /\ q_pc' = "shifted"
    /\ UNCHANGED <<q_layout, q_c, q_loc>>
    /\ UNCHANGED appVars

NextLocate == Locate \/ LocateShifted

SpecLocate == InitLocate /\ [][NextLocate]_vars

\* ============================================================ properties
\* the character a pressed key types: its char, the return glyph for Enter
Typed(ev) == IF ev.code = "Enter" THEN RETURN_GLYPH ELSE ev.ch

\* a pressed character key or Enter that is not one of the two hotkeys
Graded(ev) ==
    /\ ev.kind = "Press"
    /\ \/ ev.code = "Enter"
       \/ ev.code = "Char" /\ ~(ev.ctrl /\ ev.ch \in {104, 110})

\* the character of the story at the 0-based offset k, NoChar past the end
StoryAt(k) == IF k >= 0 /\ k < Len(story) THEN story[k + 1] ELSE NoChar

\* the session started from a cursor within the story: until the save at
\* exit the progress file holds the cursor the session was loaded with
StartedWithinStory ==
    LET start == from_reader(progress_file.text)
    IN  start.ok /\ ~lt_usize(Len(story), start.chars)

\* C1: after any sequence of input events from a cursor within the story the
\* cursor is still within the story, 0 <= cursor <= length(story)
C1_CursorWithinStory ==
    (saves = 0 /\ StartedWithinStory) => ~lt_usize(Len(story), progress_chars)

\* C2: a graded key press (a character key that is not a hotkey, or Enter for
\* the return glyph) moves the cursor to cursor + 1 exactly when the typed
\* character is the one at the cursor, and leaves it where it is otherwise
C2_GradedKeyAdvancesIffMatch ==
    [][(pc = "handle_events" /\ Graded(key_event'))
         => progress_chars' = IF StoryAt(progress_chars) = Typed(key_event')
                              THEN progress_chars + 1 ELSE progress_chars]_vars

\* C2 happens: 'H' was typed at a cursor that expected 'H' and the cursor is
\* one past the place the session started from
C2_Witness ==
    /\ key_event = KeyChar(72, FALSE)
    /\ progress_chars = from_reader(progress_file.text).chars + 1
    /\ StoryAt(progress_chars - 1) = 72

\* C3: fed the story's own keys in order from cursor 0, the cursor is N after
\* the N-th key, next() is the character at that offset while N is inside the
\* story and none at the end; "Hi" + return glyph gives 1, 2, 3 and then none
C3_ReplayReachesEveryOffset ==
    /\ progress_chars = fed
    /\ next(story, progress_chars) = StoryAt(fed)
    /\ fed = Len(story) => next(story, progress_chars) = NoChar
    /\ (story = SCENARIO_STORY /\ fed = 3)
          => (progress_chars = 3 /\ next(story, progress_chars) = NoChar)

\* C3 happens: the scenario story was typed to its end, Enter last
C3_Witness ==
    /\ story = SCENARIO_STORY
    /\ fed = 3
    /\ key_event = KeyCodeOnly("Enter")

\* C4: a Tab press moves the cursor forward by exactly one whatever the
\* expected character is, and leaves the keyboard (layout, themes, panel
\* visibility), the exit flag, the story and the progress file as they were
C4_TabAdvancesUnconditionally ==
    [][(pc = "handle_events" /\ key_event' = KeyCodeOnly("Tab"))
         => /\ lt_usize(progress_chars, progress_chars')
            /\ progress_chars' = progress_chars + 1
            /\ UNCHANGED <<keyboard, exit, story, progress_file>>]_vars

\* the hint state that the expected character calls for: the location of the
\* expected character in the active layout, nothing at the end of the story
ExpectedLocation ==
    IF StoryAt(progress_chars) = NoChar THEN NoLocation
    ELSE location(Deref(keyboard.layout), StoryAt(progress_chars))

\* C10: in every frame drawn with the keyboard panel shown, a grid key is
\* hinted exactly when the location of the expected character points at it, a
\* modifier indicator exactly when it is that location's modifier, and with no
\* expected character or no location nothing is hinted
C10_HintsFollowExpectedCharacter ==
    (pc = "handle_events" /\ keyboard.draw) =>
        LET loc == ExpectedLocation
        IN  /\ \A r \in 1..Len(keyboard.keys) : \A k \in 1..Len(keyboard.keys[r]) :
                  (keyboard.keys[r][k] = THEME_KEY_HINT)
                     <=> (loc.some /\ loc.row = r - 1 /\ loc.col = k - 1)
            /\ (keyboard.sym = THEME_KEY_HINT) <=> (loc.some /\ loc.modifier = "Sym")
            /\ (keyboard.cur = THEME_KEY_HINT) <=> (loc.some /\ loc.modifier = "Cur")
            /\ (keyboard.shift = THEME_KEY_HINT) <=> (loc.some /\ loc.modifier = "Shift")

\* ------------------------------------------------------ locator properties
\* the 0-based cells of a grid
Cells(layer) ==
    UNION {{<<r, k>> : k \in 0..(Len(layer[r + 1]) - 1)} : r \in 0..(Len(layer) - 1)}

\* the character in the cell (row, col) of a grid, NoChar outside the grid
CellAt(layer, row, col) ==
    IF row >= 0 /\ row < Len(layer) /\ col >= 0 /\ col < Len(layer[row + 1])
    THEN layer[row + 1][col + 1] ELSE NoChar

\* the characters in the cells of a grid
CharsOf(layer) == {CellAt(layer, p[1], p[2]) : p \in Cells(layer)}

\* the characters on any of the three grids of a layout
GridChars(layout) == CharsOf(layout.base) \cup CharsOf(layout.sym) \cup CharsOf(layout.cur)

\* the first cell of a non-empty set of cells in row-major order
RowMajorFirst(S) ==
    CHOOSE p \in S : \A q \in S : p[1] < q[1] \/ (p[1] = q[1] /\ p[2] <= q[2])

\* the answer of the ordered search: base, symbol, numeric (column + 6),
\* shifted base, each taken at its first match in row-major order
OrderedSearch(layout, c) ==
    LET base  == {p \in Cells(layout.base) : CellAt(layout.base, p[1], p[2]) = c}
        sym   == {p \in Cells(layout.sym) : CellAt(layout.sym, p[1], p[2]) = c}
        cur   == {p \in Cells(layout.cur) : CellAt(layout.cur, p[1], p[2]) = c}
        shifted == {p \in Cells(layout.base) : shift(CellAt(layout.base, p[1], p[2])) = c}
    IN  IF base # {}
          THEN SomeLocation(RowMajorFirst(base)[1], RowMajorFirst(base)[2], "None")
        ELSE IF sym # {}
          THEN SomeLocation(RowMajorFirst(sym)[1], RowMajorFirst(sym)[2], "Sym")
        ELSE IF cur # {}
          THEN SomeLocation(RowMajorFirst(cur)[1], RowMajorFirst(cur)[2] + 6, "Cur")
        ELSE IF shifted # {}
          THEN SomeLocation(RowMajorFirst(shifted)[1], RowMajorFirst(shifted)[2], "Shift")
        ELSE NoLocation

\* C5: locate is the first match of the ordered search base, symbol, numeric
\* (column + 6), shifted base, each scan row-major, not-found otherwise; so
\* '<' on 3l is the symbol key (0, 6) and '1' on 3l is numeric at column 1 + 6
C5_LocateIsOrderedFirstMatch ==
    q_pc # "ask" =>
        /\ q_loc = OrderedSearch(Deref(q_layout), q_c)
        /\ (q_layout = AddrOf(LAYOUT_3L) /\ q_c = 60) => q_loc = SomeLocation(0, 6, "Sym")
        /\ (q_layout = AddrOf(LAYOUT_3L) /\ q_c = 49) => q_loc = SomeLocation(0, 7, "Cur")

\* C5 happens: '<', a symbol-layer key and a shifted ',' on 3l, was located
C5_Witness ==
    /\ q_pc = "located"
    /\ q_layout = AddrOf(LAYOUT_3L)
    /\ q_c = 60
    /\ q_loc.modifier = "Sym"

\* the cell a Location names, read back from the layer its modifier names
ReIndex(layout, loc) ==
    IF ~loc.some THEN NoChar
    ELSE IF loc.modifier = "None" THEN CellAt(layout.base, loc.row, loc.col)
    ELSE IF loc.modifier = "Sym" THEN CellAt(layout.sym, loc.row, loc.col)
    ELSE IF loc.modifier = "Cur" THEN CellAt(layout.cur, loc.row, loc.col - 6)
    ELSE NoChar

\* C6: for every character on the base, symbol or numeric grid of a layout,
\* locate returns a Location whose (row, col), read back from the layer its
\* modifier names (numeric with column - 6), is that character
C6_LocateReIndexesToTarget ==
    (q_pc # "ask" /\ q_c \in GridChars(Deref(q_layout))) =>
        (q_loc.some /\ ReIndex(Deref(q_layout), q_loc) = q_c)

\* C6 happens: '1', on the numeric grid of 3l only, was located there
C6_Witness ==
    /\ q_pc = "located"
    /\ q_layout = AddrOf(LAYOUT_3L)
    /\ q_c = 49
    /\ q_loc.some
    /\ q_loc.modifier = "Cur"

\* C7 as stated: for every character c of the base grid, locate(shift(c)) is
\* the Shift reading of the very (row, col) that locate(c) gives unmodified
\* (taken for the keys of the grid only, the sentinel cells left aside)
C7_ShiftedBaseKeyIsShiftOfSameKey ==
    (q_pc = "shifted" /\ q_c \in CharsOf(Deref(q_layout).base) /\ q_c # SENTINEL) =>
        /\ q_loc.some /\ q_loc.modifier = "None"
        /\ q_shift_loc = SomeLocation(q_loc.row, q_loc.col, "Shift")

\* C7 amended: for every character c of the base grid whose shifted form is
\* on none of the layout's base, symbol and numeric grids, locate(shift(c))
\* is the Shift reading of the very (row, col) that locate(c) gives unmodified
C7_ShiftedBaseKeyOffGridIsShiftOfSameKey ==
    (/\ q_pc = "shifted"
     /\ q_c \in CharsOf(Deref(q_layout).base)
     /\ shift(q_c) \notin GridChars(Deref(q_layout))) =>
        /\ q_loc.some /\ q_loc.modifier = "None"
        /\ q_shift_loc = SomeLocation(q_loc.row, q_loc.col, "Shift")

\* C7 happens: '1' on QWERTY and its shifted form '!' were both located
C7_Witness ==
    /\ q_pc = "shifted"
    /\ q_layout = AddrOf(LAYOUT_QWERTY)
    /\ q_c = 49
    /\ q_loc = SomeLocation(0, 1, "None")
    /\ q_shift_loc.modifier = "Shift"

\* C8: the sentinel never matches as a target: locate(layout, '\0') is
\* not-found for every layout
C8_SentinelIsNeverLocated ==
    (q_pc # "ask" /\ q_c = SENTINEL) => ~q_loc.some

\* C9: a Location returned by locate never addresses, in the base grid in
\* which the keyboard hints keys, a cell that holds the sentinel (stated for
\* the targets other than the sentinel itself, which C8 covers)
C9_LocationNeverIndexesSentinel ==
    (q_pc # "ask" /\ q_c # SENTINEL /\ q_loc.some) =>
        CellAt(Deref(q_layout).base, q_loc.row, q_loc.col) # SENTINEL

\* --------------------------------------------------- layout and hotkeys
\* the successor of a layout in the cycle QWERTY -> Dvorak -> 3l -> QWERTY
CycleSuccessor(ptr) ==
    CASE ptr = "QWERTY" -> "Dvorak"
      [] ptr = "Dvorak" -> "3l"
      [] ptr = "3l" -> "QWERTY"

\* C11: the active layout is always one of QWERTY, Dvorak, 3l; every Ctrl-n
\* press moves it to its successor in the cycle QWERTY -> Dvorak -> 3l ->
\* QWERTY, and three switches in a row give back the layout they started from
C11_LayoutSwitchIsTotalCycle ==
    [][/\ keyboard.layout \in {"QWERTY", "Dvorak", "3l"}
       /\ keyboard'.layout \in {"QWERTY", "Dvorak", "3l"}
       /\ next_layout(next_layout(next_layout(keyboard))).layout = keyboard.layout
       /\ (pc = "handle_events" /\ key_event' = KeyChar(110, TRUE))
             => keyboard'.layout = CycleSuccessor(keyboard.layout)
       /\ (pc = "handle_events" /\ key_event' # KeyChar(110, TRUE))
             => keyboard'.layout = keyboard.layout]_vars

\* C11 happens: Ctrl-n was just handled and the layout is 3l, which takes two
\* switches from the QWERTY keyboard the session starts with
C11_Witness ==
    /\ key_event = KeyChar(110, TRUE)
    /\ keyboard.layout = "3l"

\* C17: the cursor is monotone: no step of the session decreases it and every
\* step changes it by 0 or by +1
C17_CursorMovesByZeroOrOne ==
    [][/\ ~lt_usize(progress_chars', progress_chars)
       /\ progress_chars' = progress_chars \/ progress_chars' = progress_chars + 1]_vars

\* C19: a Ctrl-n press leaves the cursor, the exit flag and the visibility
\* of the keyboard panel as they were, so a hidden panel stays hidden
C19_LayoutSwitchKeepsVisibility ==
    [][(pc = "handle_events" /\ key_event' = KeyChar(110, TRUE))
          => /\ progress_chars' = progress_chars
             /\ exit' = exit
             /\ keyboard'.draw = keyboard.draw]_vars

\* C20: 'n' or 'h' pressed with Control is the layout or visibility hotkey
\* and never moves the cursor, also when 'n' or 'h' is the expected
\* character; pressed without Control the same characters are graded
C20_HotkeysTakePrecedence ==
    [][pc = "handle_events" =>
         /\ key_event' = KeyChar(110, TRUE)
               => (progress_chars' = progress_chars
                   /\ keyboard'.layout # keyboard.layout)
         /\ key_event' = KeyChar(104, TRUE)
               => (progress_chars' = progress_chars
                   /\ keyboard' = [keyboard EXCEPT !.draw = ~keyboard.draw])
         /\ key_event' \in {KeyChar(110, FALSE), KeyChar(104, FALSE)}
               => (/\ progress_chars' = IF StoryAt(progress_chars) = key_event'.ch
                                        THEN progress_chars + 1 ELSE progress_chars
                   /\ keyboard' = keyboard)]_vars

\* C20 happens: in the story "nh", past the 'n', Ctrl-h was handled while 'h'
\* was the expected character: the panel is hidden and 'h' is still expected;
\* the layout is no longer the first one, so Ctrl-n was handled before
C20_Witness ==
    /\ story = <<110, 104>>
    /\ key_event = KeyChar(104, TRUE)
    /\ progress_chars = 1
    /\ StoryAt(progress_chars) = 104
    /\ ~keyboard.draw
    /\ keyboard.layout = "Dvorak"

\* ------------------------------------------------------------ exit, save
\* the progress file is untouched while the loop runs and after a failed run,
\* and holds the cursor, written once, after a run that ended normally
SavedOnlyAtExit ==
    /\ pc \in {"draw", "handle_events", "save", "failed", "panicked"} => saves = 0
    /\ pc = "done" => (saves = 1 /\ exit /\ last_saved = SomeCount(progress_chars)
                        /\ progress_file = FileWith(to_string_pretty(progress_chars)))
    /\ pc \in {"failed", "panicked"} => ~exit

\* C12: Escape sets the exit flag and the loop handles no event after it; the
\* progress is then saved exactly once, with the cursor of that moment; the
\* file is not written while the loop runs, nor by a run that an I/O error of
\* draw or of the event read, or a panic, ended
C12_EscapeSavesOnceAtExit ==
    [][/\ SavedOnlyAtExit /\ SavedOnlyAtExit'
       /\ (pc = "handle_events" /\ key_event' = KeyCodeOnly("Esc"))
             => (exit' /\ pc' = "save")
       /\ exit => UNCHANGED <<key_event, progress_chars, keyboard, exit>>
       /\ exit => (pc = "save" /\ pc' = "done")
       /\ progress_file' # progress_file => (pc = "save" /\ exit)
       /\ pc' \in {"failed", "panicked"} => UNCHANGED <<progress_file, saves, last_saved>>]_vars

\* C12 happens: the scenario story was typed to its end, Escape pressed and
\* the cursor 3 saved
C12_Witness ==
    /\ pc = "done"
    /\ story = SCENARIO_STORY
    /\ key_event = KeyCodeOnly("Esc")
    /\ saves = 1
    /\ last_saved = SomeCount(3)
    /\ from_reader(progress_file.text) = Parsed(3)

\* --------------------------------------------------------- progress store
\* C13: a load that follows a save returns the count of the most recent save
\* and leaves the file as it is; every save leaves the file holding exactly
\* the text of the saved count, whatever it held before; a load that finds no
\* file creates it with the count 0 and returns 0
C13_LoadReturnsLastSave ==
    [][/\ (pc = "load" /\ last_saved # NoCount)
             => (pc' = "draw" /\ SomeCount(progress_chars') = last_saved
                 /\ progress_file' = progress_file)
       /\ saves' = saves + 1
             => (/\ last_saved' = SomeCount(progress_chars)
                 /\ progress_file' = FileWith(to_string_pretty(progress_chars)))
       /\ (pc = "load" /\ ~progress_file.exists)
             => (pc' = "draw" /\ progress_chars' = 0
                 /\ progress_file' = FileWith(to_string_pretty(0)))]_vars

\* C13 happens: a run saved the count 2 and the run after it has just loaded
\* 2 from the file
C13_Witness ==
    /\ pc = "draw"
    /\ key_event = NoEvent
    /\ saves = 0
    /\ last_saved = SomeCount(2)
    /\ progress_chars = 2
    /\ progress_file = FileWith(to_string_pretty(2))

\* C14: with a progress file that exists and is malformed the only step is
\* the load that panics: the event loop is never entered, no cursor is set,
\* and the file is left as it is
C14_MalformedProgressIsFatal ==
    [][(progress_file.exists /\ progress_file.text \in MalformedTexts)
          => (/\ pc = "load"
              /\ pc' = "panicked"
              /\ UNCHANGED <<progress_file, progress_chars, saves, last_saved>>)]_vars

\* C14 happens: the load of a progress file with a letter for the count
\* panicked
C14_Witness ==
    /\ pc = "panicked"
    /\ progress_file = FileWith(ProgressText(<<10, 32, 32>>, <<120>>))
    /\ saves = 0

\* every text of ValidTexts parses to its count and none of MalformedTexts
\* parses
StoreTextsAreAsNamed ==
    /\ \A text \in MalformedTexts : from_reader(text) = ParseError
    /\ \A text \in ValidTexts : from_reader(text) \in {Parsed(n) : n \in {0, 1, 2, 12, USIZE_MAX}}
    /\ \A n \in (-130)..130 : from_reader(to_string_pretty(n)) = Parsed(n)

\* --------------------------------------------------------- display window
\* the number of characters the window shows
WindowSize == Len(win.prefix) + Len(win.current) + Len(win.postfix)

\* at least width / 3 characters precede the cursor and the story goes on
\* beyond the postfix budget
AwayFromBoundaries ==
    /\ ~lt_usize(progress_chars, win.width \div 3)
    /\ lt_usize(progress_chars, Len(story))
    /\ progress_chars + 1 + 2 * (win.width \div 3) <= Len(story)

\* C15 as stated: the window is never longer than the width, and away from
\* both ends of the text it is exactly as long as the width
C15_WindowFillsWidth ==
    win.pc = "rendered" =>
        /\ WindowSize <= win.width
        /\ AwayFromBoundaries => WindowSize = win.width

\* C15 amended: for every width of at least 1 the window is never longer than
\* the width (for width 0 it is at most the current character), and away from
\* both ends of the text it is exactly 2 * (width / 3) + 1 long: as long as
\* the width for the widths 1 and 3 only, longer than the width for the
\* width 0 only, shorter than the width for every other width
C15_WindowIsTwoThirdsPlusOne ==
    win.pc = "rendered" =>
        /\ win.width >= 1 => WindowSize <= win.width
        /\ WindowSize <= 2 * (win.width \div 3) + 1
        /\ AwayFromBoundaries =>
              /\ WindowSize = 2 * (win.width \div 3) + 1
              /\ (WindowSize = win.width) = (win.width \in {1, 3})
              /\ (WindowSize > win.width) = (win.width = 0)
              /\ (WindowSize < win.width) = (win.width \notin {0, 1, 3})

\* C15 happens: a panel 9 wide away from both ends of a story of 10
\* characters, 3 before the cursor and 7 from it on, shows 3 + 1 + 3
C15_Witness ==
    /\ win.pc = "rendered"
    /\ win.width = 9
    /\ progress_chars = 3
    /\ Len(story) = 10
    /\ AwayFromBoundaries
    /\ Len(win.prefix) = 3 /\ Len(win.current) = 1 /\ Len(win.postfix) = 3

\* the smaller of two usize
Smaller(a, b) == IF lt_usize(a, b) THEN a ELSE b

\* the counts of the window are as budgeted for every cursor and width: the
\* prefix count is the smaller of the cursor and width / 3, the postfix
\* count is 2 * (width / 3) less the prefix count, and no subtraction wraps
WindowBudgets ==
    win.pc = "rendered" =>
        LET third == win.width \div 3
        IN  /\ win.prefix_len = Smaller(progress_chars, third)
            /\ ~lt_usize(third, progress_chars) => win.prefix_len = progress_chars
            /\ win.postfix_len = 2 * third - win.prefix_len
            /\ win.prefix_len + win.postfix_len = 2 * third
            /\ win.prefix_len \in 0..third /\ win.postfix_len \in third..(2 * third)
            /\ win.skipped = progress_chars - win.prefix_len
            /\ ~lt_usize(progress_chars, win.skipped)
            /\ Len(win.postfix) <= win.postfix_len

\* C16: the prefix that is shown is min(k, w / 3) characters long, so k
\* itself while k <= w / 3; the postfix budget is 2 * (w / 3) less the prefix
\* length, so the two add up to 2 * (w / 3) for every k; and no subtraction
\* goes below 0 (none wraps), for every k and w, k = 0, w < 3 and k at or
\* past the end of the story included
C16_PrefixBorrowsNothingBelowZero ==
    /\ WindowBudgets
    /\ win.pc = "rendered" =>
          /\ Len(win.prefix) = Smaller(progress_chars, win.width \div 3)
          /\ Len(win.prefix) + win.postfix_len = 2 * (win.width \div 3)

\* ------------------------------------------------------ keyboard cell size
\* C18: for every keyboard area, smaller than the grid included, the row
\* height and the column width are computed without unsigned underflow, are
\* odd, and are at most height / rows and width / columns
C18_CellSizeIsOddAndFits ==
    /\ cell.pc # "panicked"
    /\ cell.pc = "sized" =>
           /\ cell.row_height % 2 = 1
           /\ cell.col_width % 2 = 1
           /\ cell.row_height <= cell.height \div rows_num(Deref(cell.layout))
           /\ cell.col_width <= cell.width \div cols_num(Deref(cell.layout))

\* ------------------------------------------------------------------ hints
\* the grid keys that carry the hinted theme
HintedKeys ==
    UNION {{<<r, k>> : k \in {i \in 1..Len(keyboard.keys[r]) :
                                 keyboard.keys[r][i] = THEME_KEY_HINT}} :
           r \in 1..Len(keyboard.keys)}

\* the modifier indicators that carry the hinted theme
HintedModifiers ==
    {m \in {"sym", "cur", "shift"} :
        (m = "sym" /\ keyboard.sym = THEME_KEY_HINT)
        \/ (m = "cur" /\ keyboard.cur = THEME_KEY_HINT)
        \/ (m = "shift" /\ keyboard.shift = THEME_KEY_HINT)}

\* the key grid has one key per cell of the active layout's base layer
KeysOfActiveLayout ==
    LET base == Deref(keyboard.layout).base
    IN  /\ Len(keyboard.keys) = Len(base)
        /\ \A r \in 1..Len(base) : Len(keyboard.keys[r]) = Len(base[r])

\* C21: in every reachable state at most one grid key and at most one
\* modifier indicator are hinted, and a modifier indicator is hinted only
\* together with a hinted key of the active layout's key grid
C21_AtMostOneHint ==
    /\ KeysOfActiveLayout
    /\ Cardinality(HintedKeys) <= 1
    /\ Cardinality(HintedModifiers) <= 1
    /\ HintedModifiers # {} => HintedKeys # {}

\* C21 happens: on 3l, after Ctrl-n twice and frames expecting other
\* characters, '<' is expected: its symbol-layer key and sym alone are hinted
C21_Witness ==
    /\ keyboard.layout = AddrOf(LAYOUT_3L)
    /\ keyboard = update(from_layout(LAYOUT_3L), 60)
    /\ HintedModifiers = {"sym"}
    /\ HintedKeys = {<<1, 7>>}

====
